---- MODULE Spec2Model ----
(***************************************************************************)
(* Model of patent_categorizer_ui.py: the sqlite cache table patent_cache, *)
(* query_patent, call_together_llama3, categorize_with_llm and the         *)
(* Streamlit page flow that calls them.                                    *)
(*                                                                         *)
(* Representation of Python values:                                        *)
(*   str        a sequence of pieces, <<"Widget", " ", "Fastener">>        *)
(*   None/NULL  <<>>, any other optional value x is <<x>>                  *)
(*   JSON value <<"str", s>>, <<"arr", items>>, <<"obj", members>> or      *)
(*              <<"null", <<>>>>; members is a sequence of <<key, value>>  *)
(*              in insertion order, as a Python dict keeps them            *)
(*   JSON text  a sequence of tokens <<kind, s>>                           *)
(*                                                                         *)
(* A run of the script is cut where the code commits a transaction on      *)
(* patents_cache.db or waits for a remote service: each `with              *)
(* sqlite3.connect` block and each requests call is one step, with the     *)
(* Python around it. Spec is one browser session; SpecStore drives the two *)
(* writes of the table alone.                                              *)
(*                                                                         *)
(* The remote services are outside the program: the record the search      *)
(* service returns carries whatever patent_number the service put there,   *)
(* which the code never compares with the number asked for.                *)
(***************************************************************************)
EXTENDS Integers, Sequences, FiniteSets, Bags, TLC

\* ------------------------------------------------------------------ bounds
NumIds == 2

\* --------------------------------------------------------- optional values
None == <<>>
Some(x) == <<x>>
IsNone(o) == Len(o) = 0
Val(o) == o[1]

\* ------------------------------------------------------------- JSON values
Str(s) == <<"str", s>>
Arr(items) == <<"arr", items>>
Obj(members) == <<"obj", members>>
Null == <<"null", <<>>>>

IsObj(v) == v[1] = "obj"

HasKey(members, k) == \E i \in 1..Len(members) : members[i][1] = k

\* dict.get(k): the value under k as an optional value
DictGet(v, k) ==
    IF IsObj(v) /\ HasKey(v[2], k)
    THEN Some(v[2][CHOOSE i \in 1..Len(v[2]) : v[2][i][1] = k][2])
    ELSE None

\* d[k] = x on a dict: a key already present keeps its place
DictSet(members, k, x) ==
    IF HasKey(members, k)
    THEN [i \in 1..Len(members) |->
            IF members[i][1] = k THEN <<k, x>> ELSE members[i]]
    ELSE Append(members, <<k, x>>)

\* --------------------------------------------------------------- JSON text
Punct(c) == <<"punct", <<c>>>>
StringTok(s) == <<"string", s>>
Word(w) == <<"word", <<w>>>>

LBRACE == Punct("{")
RBRACE == Punct("}")
LBRACK == Punct("[")
RBRACK == Punct("]")
COMMA == Punct(",")
COLON == Punct(":")
NULLTOK == Word("null")

RECURSIVE json_dumps(_), DumpItems(_, _), DumpMembers(_, _)

DumpItems(items, i) ==
    IF i > Len(items) THEN <<>>
    ELSE (IF i > 1 THEN <<COMMA>> ELSE <<>>)
         \o json_dumps(items[i]) \o DumpItems(items, i + 1)

DumpMembers(members, i) ==
    IF i > Len(members) THEN <<>>
    ELSE (IF i > 1 THEN <<COMMA>> ELSE <<>>)
         \o <<StringTok(members[i][1]), COLON>>
         \o json_dumps(members[i][2]) \o DumpMembers(members, i + 1)

\* json.dumps(value): the text of a JSON value
json_dumps(v) ==
    CASE v[1] = "str" -> <<StringTok(v[2])>>
      [] v[1] = "arr" -> <<LBRACK>> \o DumpItems(v[2], 1) \o <<RBRACK>>
      [] v[1] = "obj" -> <<LBRACE>> \o DumpMembers(v[2], 1) \o <<RBRACE>>
      [] OTHER -> <<NULLTOK>>

\* A parse step answers <<"ok", value, next position>> or ParseFail.
ParseFail == <<"fail", Null, 0>>

RECURSIVE ParseValue(_, _), ParseItems(_, _, _), ParseMembers(_, _, _)

ParseItems(toks, i, acc) ==
    LET r == ParseValue(toks, i) IN
    IF r[1] # "ok" \/ r[3] > Len(toks) THEN ParseFail
    ELSE IF toks[r[3]] = COMMA THEN ParseItems(toks, r[3] + 1, Append(acc, r[2]))
    ELSE IF toks[r[3]] = RBRACK THEN <<"ok", Arr(Append(acc, r[2])), r[3] + 1>>
    ELSE ParseFail

ParseMembers(toks, i, acc) ==
    IF i + 1 > Len(toks) \/ toks[i][1] # "string" \/ toks[i + 1] # COLON
    THEN ParseFail
    ELSE LET r == ParseValue(toks, i + 2) IN
         IF r[1] # "ok" \/ r[3] > Len(toks) THEN ParseFail
         ELSE IF toks[r[3]] = COMMA
              THEN ParseMembers(toks, r[3] + 1, DictSet(acc, toks[i][2], r[2]))
         ELSE IF toks[r[3]] = RBRACE
              THEN <<"ok", Obj(DictSet(acc, toks[i][2], r[2])), r[3] + 1>>
         ELSE ParseFail

ParseValue(toks, i) ==
    IF i > Len(toks) THEN ParseFail
    ELSE IF toks[i][1] = "string" THEN <<"ok", Str(toks[i][2]), i + 1>>
    ELSE IF toks[i] = NULLTOK THEN <<"ok", Null, i + 1>>
    ELSE IF toks[i] = LBRACK
         THEN IF i + 1 <= Len(toks) /\ toks[i + 1] = RBRACK
              THEN <<"ok", Arr(<<>>), i + 2>>
              ELSE ParseItems(toks, i + 1, <<>>)
    ELSE IF toks[i] = LBRACE
         THEN IF i + 1 <= Len(toks) /\ toks[i + 1] = RBRACE
              THEN <<"ok", Obj(<<>>), i + 2>>
              ELSE ParseMembers(toks, i + 1, <<>>)
    ELSE ParseFail

\* The outcome of a Python call: <<"ok", value>> or <<"raise", exception>>;
\* an exception is <<type, message>> and str(e) is its message.
Ok(v) == <<"ok", v>>
Raise(e) == <<"raise", e>>
IsOk(r) == r[1] = "ok"
ExcStr(e) == e[2]
TypeError == <<"TypeError", <<"the JSON object must be str, bytes or bytearray, not NoneType">>>>
JSONDecodeError == <<"JSONDecodeError", <<"Expecting value or extra data">>>>
ConnectionError == <<"ConnectionError", <<"connection failed">>>>
KeyError == <<"KeyError", <<"TOGETHER_API_KEY">>>>

RECURSIVE SkipWords(_)
SkipWords(toks) ==
    IF toks # <<>> /\ Head(toks)[1] = "word" /\ Head(toks) # NULLTOK
    THEN SkipWords(Tail(toks)) ELSE toks

\* json.loads made lenient: commentary before the value is skipped
json_loads_Lenient(s) ==
    IF IsNone(s) THEN Raise(TypeError)
    ELSE LET r == ParseValue(SkipWords(Val(s)), 1) IN
         IF r[1] = "ok" /\ r[3] = Len(SkipWords(Val(s))) + 1 THEN Ok(r[2])
         ELSE Raise(JSONDecodeError)

\* json.loads(s) for s a column value or a response text: None is no str
\* (TypeError); text that is not exactly one JSON value is a JSONDecodeError
json_loads(s) ==
    IF IsNone(s) THEN Raise(TypeError)
    ELSE LET r == ParseValue(Val(s), 1) IN
         IF r[1] = "ok" /\ r[3] = Len(Val(s)) + 1 THEN Ok(r[2])
         ELSE Raise(JSONDecodeError)

\* Python truth of a JSON value: empty str, list, dict and None are false
Truthy(v) == v[1] # "null" /\ Len(v[2]) > 0

\* ------------------------------------------------- the table patent_cache
\* A row is [patent_number, data_json, gpt_json]; the two payload columns are
\* optional texts. The table is the bag of its rows: a relation has no order,
\* and only the primary key keeps a row from being there twice.
Row(k, d, g) == [patent_number |-> k, data_json |-> d, gpt_json |-> g]

\* the rows whose key is (keep = TRUE) or is not (FALSE) the key
Filter(rows, key, keep) ==
    [r \in {x \in DOMAIN rows : (Some(x.patent_number) = key) = keep} |-> rows[r]]

\* WHERE patent_number=?  with the parameter an optional str: NULL equals
\* nothing
WhereKey(rows, key) == Filter(rows, key, TRUE)

\* SELECT <column> ... .fetchone(): None, or the 1-tuple of the column value
\* of a row selected
FetchOne(rows, column) ==
    IF rows = EmptyBag THEN None
    ELSE LET r == CHOOSE x \in DOMAIN rows : TRUE IN
         Some(<<IF column = "data_json" THEN r.data_json ELSE r.gpt_json>>)

\* `if row:` a tuple is true when it is not empty, whatever it holds
RowTruthy(row) == ~IsNone(row) /\ Len(Val(row)) > 0

\* the write lost: the statement runs on a connection that never commits
ReplaceInto_NotCommitted(rows, k, text) == rows

\* a plain INSERT on a table without the primary key
ReplaceInto_PlainInsert(rows, k, text) ==
    rows (+) SetToBag({Row(k, Some(text), None)})

\* INSERT OR IGNORE: on a conflict the row in the table stays
ReplaceInto_InsertOrIgnore(rows, k, text) ==
    IF WhereKey(rows, Some(k)) = EmptyBag
    THEN rows (+) SetToBag({Row(k, Some(text), None)})
    ELSE rows

\* REPLACE INTO patent_cache (patent_number, data_json) VALUES (k, text):
\* the row that conflicts on the primary key is deleted and the new row is
\* inserted, its unnamed column gpt_json at its default NULL
ReplaceInto(rows, k, text) ==
    Filter(rows, Some(k), FALSE) (+) SetToBag({Row(k, Some(text), None)})

RECURSIVE Copies(_, _)
\* how many rows of the bag the set `from` stands for
Copies(rows, from) ==
    IF from = {} THEN 0
    ELSE LET x == CHOOSE y \in from : TRUE IN rows[x] + Copies(rows, from \ {x})

\* REPLACE INTO patent_cache (patent_number, gpt_json) in place of the
\* UPDATE: the row is made anew, its data_json at NULL
UpdateGpt_Upsert(rows, key, text) ==
    IF IsNone(key) THEN rows
    ELSE Filter(rows, key, FALSE) (+) SetToBag({Row(Val(key), None, Some(text))})

\* UPDATE patent_cache SET gpt_json=text WHERE patent_number=key
UpdateGpt(rows, key, text) ==
    LET upd(x) == IF Some(x.patent_number) = key
                  THEN [x EXCEPT !.gpt_json = Some(text)] ELSE x
    IN [r \in {upd(x) : x \in DOMAIN rows} |->
          Copies(rows, {x \in DOMAIN rows : upd(x) = r})]

\* DROP TABLE before CREATE TABLE: every run starts on an empty table
CreateTable_DropFirst(db) == Some(EmptyBag)

\* CREATE TABLE IF NOT EXISTS patent_cache: db is None while the file holds
\* no table
CreateTableIfNotExists(db) == IF IsNone(db) THEN Some(EmptyBag) ELSE db

\* ------------------------------------------------------------ identifiers
IdPool == <<"11234567", "7654321", "10000001", "10000002">>
Ids == {<<IdPool[i]>> : i \in 1..NumIds}

\* what the user can type: nothing, an identifier, an identifier with blanks
\* around it
Inputs == {<<>>} \cup Ids \cup {<<" ">> \o k \o <<" ">> : k \in Ids}

RECURSIVE lstrip(_), rstrip(_)
lstrip(s) == IF s # <<>> /\ Head(s) = " " THEN lstrip(Tail(s)) ELSE s
rstrip(s) ==
    IF s # <<>> /\ s[Len(s)] = " " THEN rstrip(SubSeq(s, 1, Len(s) - 1)) ELSE s
\* str.strip()
strip(s) == rstrip(lstrip(s))

\* ------------------------------------------------------ the search service
Revisions == {"as first published", "as corrected"}

\* One record of the service for query q: the patent_number it carries is
\* the service's (num, an optional str), the other fields requested by "f".
PatentRecord(q, num, rev) ==
    Obj((IF IsNone(num) THEN <<>> ELSE << <<<<"patent_number">>, Str(Val(num))>> >>)
        \o << <<<<"patent_title">>, Str(<<"Widget Fastener ">> \o q)>>,
              <<<<"abstract">>, Str(<<"A fastening widget, ", rev>>)>>,
              <<<<"patent_date">>, Str(<<"2022-01-25">>)>>,
              <<<<"application_number">>, Str(<<"16/123456">>)>>,
              <<<<"filing_date">>, Str(<<"2019-03-01">>)>>,
              <<<<"assignees">>,
                Arr(<<Obj(<< <<<<"assignee_organization">>, Str(<<"Acme">>)>> >>)>>)>>,
              <<<<"inventors">>,
                Arr(<<Obj(<< <<<<"inventor_first_name">>, Str(<<"Ada">>)>>,
                             <<<<"inventor_last_name">>, Str(<<"Lovelace">>)>> >>)>>)>> >>)

\* A reply of a remote service: <<"response", status, body>>, or <<"raise",
\* "", None>> when requests raises instead of answering.
Response(status, body) == <<"response", status, body>>
NoResponse == <<"raise", "", None>>

\* The replies requests.get can meet for the query on q: a match (whatever
\* patent_number the record carries), an empty patents array, a body
\* without patents, a status other than 200, no reply.
SearchReplies(q) ==
    {Response("200", Some(Obj(<< <<<<"patents">>, Arr(<<PatentRecord(q, num, rev)>>)>> >>))) :
        num \in {None} \cup {Some(k) : k \in Ids}, rev \in Revisions}
    \cup {Response("200", Some(Obj(<< <<<<"patents">>, Arr(<<>>)>> >>))),
          Response("200", Some(Obj(<<>>))),
          Response("500", None),
          NoResponse}

\* --------------------------------------------------------- the LLM service
GoodResult ==
    Obj(<< <<<<"technology_areas">>, Arr(<<Str(<<"Mechanical">>)>>)>>,
           <<<<"ipc_predicted">>, Str(<<"F16B">>)>>,
           <<<<"cpc_predicted">>, Str(<<"F16B35/00">>)>>,
           <<<<"uspc_predicted">>, Str(<<"411">>)>>,
           <<<<"reasoning">>, Str(<<"...">>)>> >>)

RefusalResult == Obj(<< <<<<"error">>, Str(<<"cannot classify">>)>> >>)

\* The content of a completion: the object asked for, the same preceded by
\* commentary, an object of the model's own making.
Completions ==
    {json_dumps(GoodResult),
     <<Word("Sure!")>> \o json_dumps(GoodResult),
     json_dumps(RefusalResult)}

LLMReplies ==
    {Response("200", Some(c)) : c \in Completions}
    \cup {Response("500", Some(<<Word("overloaded")>>)), NoResponse}

RECURSIVE Flatten(_)
\* the characters of a text
Flatten(toks) == IF toks = <<>> THEN <<>> ELSE Head(toks)[2] \o Flatten(Tail(toks))

\* the status compared with 201: every reply is taken for an error
call_together_llama3_WrongStatus(reply) ==
    IF reply[1] = "raise" THEN Raise(ConnectionError)
    ELSE Raise(<<"Exception",
                 <<"Together API Error: ", reply[2], ", ">> \o Flatten(Val(reply[3]))>>)

\* call_together_llama3(prompt) when the service replies `reply`
call_together_llama3(reply) ==
    IF reply[1] = "raise" THEN Raise(ConnectionError)
    ELSE IF reply[2] = "200" THEN Ok(Val(reply[3]))
    ELSE Raise(<<"Exception",
                 <<"Together API Error: ", reply[2], ", ">> \o Flatten(Val(reply[3]))>>)

\* ---------------------------------------------------------------- the page
\* What a run of the script puts on the page: a sequence of <<widget, value>>.
Widget(kind, v) == <<kind, v>>

OrNull(o) == IF IsNone(o) THEN Null ELSE Val(o)

\* f"{v}": a str as it is, None as "None", anything else by its text
PyFormat(v) ==
    CASE v[1] = "str" -> v[2]
      [] v[1] = "null" -> <<"None">>
      [] OTHER -> Flatten(json_dumps(v))

ListOf(o) == IF IsNone(o) THEN <<>> ELSE Val(o)[2]

\* the dict st.write shows
MetadataView(patent) ==
    Obj(<< <<<<"Title">>, OrNull(DictGet(patent, <<"patent_title">>))>>,
           <<<<"Abstract">>, OrNull(DictGet(patent, <<"abstract">>))>>,
           <<<<"Filing Date">>, OrNull(DictGet(patent, <<"filing_date">>))>>,
           <<<<"Publication Date">>, OrNull(DictGet(patent, <<"patent_date">>))>>,
           <<<<"Application Number">>, OrNull(DictGet(patent, <<"application_number">>))>>,
           <<<<"Assignee(s)">>,
             Arr([i \in 1..Len(ListOf(DictGet(patent, <<"assignees">>))) |->
                    OrNull(DictGet(ListOf(DictGet(patent, <<"assignees">>))[i],
                                   <<"assignee_organization">>))])>>,
           <<<<"Inventor(s)">>,
             Arr([i \in 1..Len(ListOf(DictGet(patent, <<"inventors">>))) |->
                    LET inv == ListOf(DictGet(patent, <<"inventors">>))[i] IN
                    Str(PyFormat(OrNull(DictGet(inv, <<"inventor_first_name">>)))
                        \o <<" ">>
                        \o PyFormat(OrNull(DictGet(inv, <<"inventor_last_name">>))))])>> >>)

\* `"error" in gpt_result`: a key of a dict, an item of a list, a part of a
\* str; None is not iterable
ErrorIn(v) ==
    CASE v[1] = "obj" -> Ok(HasKey(v[2], <<"error">>))
      [] v[1] = "arr" -> Ok(\E i \in 1..Len(v[2]) : v[2][i] = Str(<<"error">>))
      [] v[1] = "str" -> Ok(\E i \in 1..Len(v[2]) : v[2][i] = "error")
      [] OTHER -> Raise(TypeError)

Exception(e) == Widget("exception", Str(<<e[1]>>))

\* lines 136-142: the banner or the categorization
ShowResult(gpt_result) ==
    LET has == ErrorIn(gpt_result) IN
    IF ~IsOk(has) THEN <<Exception(has[2])>>
    ELSE IF has[2]
    THEN IF IsObj(gpt_result)
         THEN <<Widget("error",
                       Str(<<"LLM Error: ">>
                           \o PyFormat(Val(DictGet(gpt_result, <<"error">>)))))>>
         ELSE <<Exception(TypeError)>>
    ELSE <<Widget("subheader", Str(<<"Categorization">>)),
           Widget("json", gpt_result),
           Widget("markdown", Str(<<"### Reasoning">>))>>
         \o (IF IsObj(gpt_result)
             THEN <<Widget("write",
                           IF HasKey(gpt_result[2], <<"reasoning">>)
                           THEN Val(DictGet(gpt_result, <<"reasoning">>))
                           ELSE Str(<<"No explanation returned.">>))>>
             ELSE <<Exception(<<"AttributeError", <<"get">>>>)>>)

NotFoundPage == <<Widget("error", Str(<<"Patent not found or API error.">>))>>

\* lines 123-142: the page for found metadata and a returned gpt_result
ResultPage(patent_data, gpt_result) ==
    <<Widget("subheader", Str(<<"Patent Metadata">>)),
      Widget("write", MetadataView(Val(DictGet(patent_data, <<"patents">>))[2][1]))>>
    \o ShowResult(gpt_result)

\* ------------------------------------------------------------------- state
Procs == {1, 2, 3}
PairProcs == {1, 2}
SeqProcs == {1}

VARIABLES
    credential,  \* TOGETHER_API_KEY is set in the environment or the secrets
    table,       \* patent_cache in patents_cache.db: None, or Some(rows)
    run,         \* per session: the current (or last) run of the script
    prev,        \* per session: the run before, when it was a submission of
                 \* the same identifier; None otherwise
    writes       \* the cache store driven alone: its last write, or its last
                 \* two when a classification write followed a metadata write

vars == <<credential, table, run, prev, writes>>

\* A run of the script. pc is the statement it stands at ("idle": the run is
\* over and the page is shown).
NoRun ==
    [pc |-> "idle",
     rendered |-> FALSE,      \* st.text_input was reached: the user can type
     patent_number |-> None,  \* patent_input.strip() of a submission
     before |-> None,         \* the table when the current function was called
     apiCalls |-> 0,          \* requests.get calls of this run
     api |-> None,            \* the reply requests.get met, if it was called
     apiAtCall |-> 0,         \* apiCalls when categorize_with_llm was called
     llmCalls |-> 0,          \* requests.post calls of this run
     patent_data |-> None,    \* what query_patent returned, or data to store
     found |-> FALSE,         \* query_patent returned a true value
     classify |-> FALSE,      \* categorize_with_llm was called
     llm |-> None,            \* how the LLM service replies during this run
     key |-> None,            \* patent.get("patent_number")
     path |-> "",             \* how categorize_with_llm ended
     gpt_result |-> None,     \* what categorize_with_llm returned
     error |-> None,          \* the exception that ended the run, if any
     page |-> <<>>]

Init ==
    /\ credential \in BOOLEAN
    /\ table = None
    /\ run = [p \in Procs |-> NoRun]
    /\ prev = [p \in Procs |-> None]
    /\ writes = <<>>

\* ---------------------------------------------------------------- the run
\* an uncaught exception ends the run; Streamlit shows it on the page
Crashed(r, e) == [r EXCEPT !.pc = "idle", !.error = Some(e), !.page = <<Exception(e)>>]

\* line 119 without its test: categorize_with_llm is called on whatever
\* query_patent returned
AfterQuery_NoTest(r, value, tbl) ==
    [r EXCEPT !.pc = "c_select", !.patent_data = value,
              !.found = ~(IsNone(value) \/ ~Truthy(Val(value))),
              !.before = tbl, !.apiAtCall = r.apiCalls]

\* lines 118-122: query_patent returned `value` (an optional JSON value) with
\* the table at tbl: the banner, or the call of categorize_with_llm
AfterQuery(r, value, tbl) ==
    IF IsNone(value) \/ ~Truthy(Val(value))
    THEN [r EXCEPT !.pc = "idle", !.patent_data = value, !.page = NotFoundPage]
    ELSE [r EXCEPT !.pc = "c_select", !.patent_data = value, !.found = TRUE,
                   !.before = tbl, !.apiAtCall = r.apiCalls]

\* lines 122-142: categorize_with_llm returned v
AfterCategorize(r, v, path) ==
    [r EXCEPT !.pc = "idle", !.gpt_result = Some(v), !.path = path,
              !.page = ResultPage(Val(r.patent_data), v)]

\* the key read where it is used, in call_together_llama3: the script reaches
\* init_cache and the text box without it
Rerun_KeyReadLate(p, input) ==
    /\ run[p].pc = "idle"
    /\ input # <<>> => run[p].rendered
    /\ prev' = [prev EXCEPT ![p] =
                  IF input # <<>> /\ run[p].patent_number = Some(strip(input))
                  THEN Some(run[p]) ELSE None]
    /\ table' = CreateTableIfNotExists(table)
    /\ run' = [run EXCEPT ![p] =
          IF input = <<>>
          THEN [NoRun EXCEPT !.rendered = TRUE]
          ELSE [NoRun EXCEPT !.rendered = TRUE, !.pc = "q_select",
                             !.patent_number = Some(strip(input)),
                             !.before = table']]
    /\ UNCHANGED <<credential, writes>>

\* lines 9-118: a run of the script with `input` in the text box, up to the
\* call of query_patent
Rerun(p, input) ==
    /\ run[p].pc = "idle"
    /\ input # <<>> => run[p].rendered
    /\ prev' = [prev EXCEPT ![p] =
                  IF input # <<>> /\ run[p].patent_number = Some(strip(input))
                  THEN Some(run[p]) ELSE None]
    /\ IF ~credential
       THEN /\ run' = [run EXCEPT ![p] = Crashed(NoRun, KeyError)]
            /\ table' = table
       ELSE /\ table' = CreateTableIfNotExists(table)
            /\ run' = [run EXCEPT ![p] =
                  IF input = <<>>
                  THEN [NoRun EXCEPT !.rendered = TRUE]
                  ELSE [NoRun EXCEPT !.rendered = TRUE, !.pc = "q_select",
                                     !.patent_number = Some(strip(input)),
                                     !.before = table']]
    /\ UNCHANGED <<credential, writes>>

\* lines 29-32: the cache lookup of query_patent
QSelect(p) ==
    /\ run[p].pc = "q_select"
    /\ LET row == FetchOne(WhereKey(Val(table), run[p].patent_number), "data_json") IN
       run' = [run EXCEPT ![p] =
          IF RowTruthy(row)
          THEN LET r == json_loads(Val(row)[1]) IN
               IF IsOk(r) THEN AfterQuery(@, Some(r[2]), table) ELSE Crashed(@, r[2])
          ELSE [@ EXCEPT !.pc = "q_http"]]
    /\ UNCHANGED <<credential, table, prev, writes>>

\* the test of line 46 cut to `"patents" in data`
QueryFound_NoEmptyCheck(reply) ==
    /\ reply[2] = "200"
    /\ HasKey(Val(reply[3])[2], <<"patents">>)

\* lines 44-46: the reply carries at least one record
QueryFound(reply) ==
    /\ reply[2] = "200"
    /\ HasKey(Val(reply[3])[2], <<"patents">>)
    /\ Truthy(Val(DictGet(Val(reply[3]), <<"patents">>)))

\* lines 34-46, 51: the request to the search service
QHttp(p) ==
    /\ run[p].pc = "q_http"
    /\ \E reply \in SearchReplies(Val(run[p].patent_number)) :
         run' = [run EXCEPT ![p] =
            LET r == [@ EXCEPT !.apiCalls = @ + 1, !.api = Some(reply)] IN
            IF reply[1] = "raise" THEN Crashed(r, ConnectionError)
            ELSE IF QueryFound(reply)
                 THEN [r EXCEPT !.pc = "q_replace", !.patent_data = reply[3]]
                 ELSE AfterQuery(r, None, table)]
    /\ UNCHANGED <<credential, table, prev, writes>>

\* lines 47-50: the row is written and the data returned
QReplace(p) ==
    /\ run[p].pc = "q_replace"
    /\ table' = Some(ReplaceInto(Val(table), Val(run[p].patent_number),
                                 json_dumps(Val(run[p].patent_data))))
    /\ run' = [run EXCEPT ![p] = AfterQuery(@, @.patent_data, table')]
    /\ UNCHANGED <<credential, prev, writes>>

\* line 75: patent_data['patents'][0]
PatentOf(patent_data) ==
    LET patents == DictGet(patent_data, <<"patents">>) IN
    IF IsNone(patents) THEN Raise(<<"KeyError", <<"patents">>>>)
    ELSE IF Len(Val(patents)[2]) = 0
         THEN Raise(<<"IndexError", <<"list index out of range">>>>)
         ELSE Ok(Val(patents)[2][1])

\* line 94: patent.get("patent_number") as the parameter of the statement
KeyOf(patent) ==
    LET k == DictGet(patent, <<"patent_number">>)
    IN IF IsNone(k) THEN None ELSE Some(Val(k)[2])

\* lines 75-96: the cache lookup of categorize_with_llm; `reply` is how the
\* LLM service answers while this call lasts
CSelect(p) ==
    /\ run[p].pc = "c_select"
    /\ \E reply \in LLMReplies :
         LET patent == PatentOf(Val(run[p].patent_data))
             key == IF IsOk(patent) THEN KeyOf(patent[2]) ELSE None
             row == FetchOne(WhereKey(Val(table), key), "gpt_json")
         IN run' = [run EXCEPT ![p] =
              LET r == [@ EXCEPT !.classify = TRUE, !.llm = Some(reply), !.key = key] IN
              IF ~IsOk(patent) THEN Crashed(r, patent[2])
              ELSE IF RowTruthy(row)
              THEN LET v == json_loads(Val(row)[1]) IN
                   IF IsOk(v) THEN AfterCategorize(r, v[2], "cache")
                   ELSE Crashed(r, v[2])
              ELSE [r EXCEPT !.pc = "c_http"]]
    /\ UNCHANGED <<credential, table, prev, writes>>

\* lines 99-100: the call and the parse, Ok(result) or the exception raised
TryBody(reply) ==
    LET text == call_together_llama3(reply) IN
    IF IsOk(text) THEN json_loads(Some(text[2])) ELSE text

\* line 106
ExceptValue(e) == Obj(<< <<<<"error">>, Str(ExcStr(e))>> >>)

\* lines 98-100, 105-106: the request to the LLM service
CHttp(p) ==
    /\ run[p].pc = "c_http"
    /\ run' = [run EXCEPT ![p] =
          LET r == [@ EXCEPT !.llmCalls = @ + 1]
              result == TryBody(Val(@.llm))
          IN IF IsOk(result)
             THEN [r EXCEPT !.pc = "c_update", !.gpt_result = Some(result[2])]
             ELSE AfterCategorize(r, ExceptValue(result[2]), "except")]
    /\ UNCHANGED <<credential, table, prev, writes>>

\* lines 101-104: the result is written and returned
CUpdate(p) ==
    /\ run[p].pc = "c_update"
    /\ table' = Some(UpdateGpt(Val(table), run[p].key,
                               json_dumps(Val(run[p].gpt_result))))
    /\ run' = [run EXCEPT ![p] = AfterCategorize(@, Val(@.gpt_result), "llm")]
    /\ UNCHANGED <<credential, prev, writes>>

Step(p) ==
    \/ \E input \in Inputs : Rerun(p, input)
    \/ QSelect(p)
    \/ QHttp(p)
    \/ QReplace(p)
    \/ CSelect(p)
    \/ CHttp(p)
    \/ CUpdate(p)

\* ------------------------------------------------- the cache store alone
\* The two writes of the cache store, called on any identifier in any order.
MetadataOf(k) ==
    {Obj(<< <<<<"patents">>, Arr(<<PatentRecord(k, Some(k), rev)>>)>> >>) :
        rev \in Revisions}
KnownResults == {GoodResult, RefusalResult}

\* lines 47-49 as put_metadata(k, data)
PutMetadata(k, data) ==
    /\ table' = Some(ReplaceInto(Val(table), k, json_dumps(data)))
    /\ writes' = << <<"put_metadata", k, data>> >>
    /\ UNCHANGED <<credential, run, prev>>

\* lines 101-103 as put_classification(k, result)
PutClassification(k, result) ==
    /\ table' = Some(UpdateGpt(Val(table), Some(k), json_dumps(result)))
    /\ writes' = IF Len(writes) = 1 /\ writes[1][1] = "put_metadata"
                 THEN Append(writes, <<"put_classification", k, result>>)
                 ELSE << <<"put_classification", k, result>> >>
    /\ UNCHANGED <<credential, run, prev>>

\* lines 15-23: the table as init_cache leaves a new file
InitStore ==
    /\ credential = TRUE
    /\ table = CreateTableIfNotExists(None)
    /\ run = [p \in Procs |-> NoRun]
    /\ prev = [p \in Procs |-> None]
    /\ writes = <<>>

NextStore ==
    \/ \E k \in Ids : \E data \in MetadataOf(k) : PutMetadata(k, data)
    \/ \E k \in Ids : \E result \in KnownResults : PutClassification(k, result)

SpecStore == InitStore /\ [][NextStore]_vars

\* one session: the runs of the script follow one another
Next == \E p \in SeqProcs : Step(p)

Spec == Init /\ [][Next]_vars

\* --------------------------------------------------- sessions side by side
\* Streamlit runs the script of each browser session in a thread of its own,
\* and each statement on the table (lines 17-22, 30-32, 47-49, 93-96, 101-103)
\* opens its connection and commits alone: the runs of the sessions interleave
\* at the statements. Here each session submits one identifier.
FirstRerun(p) ==
    /\ IsNone(run[p].patent_number)
    /\ \E input \in Inputs : Rerun(p, input)

Once(p) ==
    \/ FirstRerun(p)
    \/ QSelect(p)
    \/ QHttp(p)
    \/ QReplace(p)
    \/ CSelect(p)
    \/ CHttp(p)
    \/ CUpdate(p)

\* two sessions, the services answering as in Spec
NextPair == \E p \in PairProcs : Once(p)

SpecPair == Init /\ [][NextPair]_vars

\* The replies the run r met were the plain ones: the search service found
\* one record carrying a patent_number, the LLM service answered the object
\* asked for or status 500.
PlainReplies(r) ==
    /\ IsNone(r.api) \/
          \E q \in Ids, k \in Ids :
             Val(r.api) = Response("200", Some(Obj(<< <<<<"patents">>,
                             Arr(<<PatentRecord(q, Some(k), "as first published")>>)>> >>)))
    /\ IsNone(r.llm) \/
          Val(r.llm) \in {Response("200", Some(json_dumps(GoodResult))),
                          Response("500", Some(<<Word("overloaded")>>))}

\* three sessions, the services answering plainly
OncePlainly(p) ==
    \/ FirstRerun(p)
    \/ QSelect(p)
    \/ QHttp(p) /\ PlainReplies(run'[p])
    \/ QReplace(p)
    \/ CSelect(p) /\ PlainReplies(run'[p])
    \/ CHttp(p)
    \/ CUpdate(p)

NextTrio == \E p \in Procs : OncePlainly(p)

SpecTrio == Init /\ [][NextTrio]_vars

\* ------------------------------------------------------------- properties
\* The session the properties speak of, its run and the run before it.
R == run[1]
HasPrev == ~IsNone(prev[1])
P == Val(prev[1])

Ended(r) == r.pc = "idle"
Submitted(r) == ~IsNone(r.patent_number)
\* query_patent is over (it returned, or an exception left it)
FetchOver(r) == Submitted(r) /\ r.pc \notin {"q_select", "q_http", "q_replace"}
\* categorize_with_llm was called and is over
ClassifyOver(r) == r.classify /\ Ended(r)
RowsOf(db, key) == IF IsNone(db) THEN EmptyBag ELSE WhereKey(Val(db), key)
\* the one row of a bag of one row
TheRow(rows) == CHOOSE r \in DOMAIN rows : TRUE
\* the LLM service answers 200 with a text that is one JSON value
RepliesJSON(reply) ==
    /\ reply[1] = "response" /\ reply[2] = "200"
    /\ \E v \in KnownResults : reply[3] = Some(json_dumps(v))
\* the value that text is
ReplyValue(reply) == CHOOSE v \in KnownResults : reply[3] = Some(json_dumps(v))
\* the search service answers without a record: another status than 200, no
\* patents array, an empty one
RepliesNoRecord(reply) ==
    /\ reply[1] = "response"
    /\ \/ reply[2] # "200"
       \/ ~HasKey(Val(reply[3])[2], <<"patents">>)
       \/ Val(DictGet(Val(reply[3]), <<"patents">>)) = Arr(<<>>)
OnPage(r, w) == \E i \in 1..Len(r.page) : r.page[i] = w

\* C1: cache independence. A call of categorize_with_llm made while the row
\* of its identifier holds metadata and no classification makes no request to
\* the search service and exactly one to the LLM service.
C1_CacheIndependence ==
    (/\ ClassifyOver(R)
     /\ RowsOf(R.before, R.key) # EmptyBag
     /\ \A r \in DOMAIN RowsOf(R.before, R.key) :
           ~IsNone(r.data_json) /\ IsNone(r.gpt_json))
    => (R.apiCalls = R.apiAtCall /\ R.llmCalls = 1)

\* C2: end to end. The first submission of an identifier on an empty cache,
\* for which the search service returns one matching record and the LLM
\* service the five-field object as plain JSON, ends with a page that shows
\* the metadata fields and the five classification fields as returned.
C2_EndToEnd ==
    (/\ Ended(R) /\ R.found /\ R.apiCalls = 1
     /\ R.before = Some(SetToBag({Row(Val(R.patent_number),
                                       Some(json_dumps(Val(R.patent_data))), None)}))
     /\ KeyOf(PatentOf(Val(R.patent_data))[2]) = R.patent_number
     /\ R.llm = Some(Response("200", Some(json_dumps(GoodResult)))))
    => (/\ IsNone(R.error)
        /\ OnPage(R, Widget("write", MetadataView(PatentOf(Val(R.patent_data))[2])))
        /\ OnPage(R, Widget("json", GoodResult)))

\* C3: classify idempotence. Two calls of categorize_with_llm in succession
\* on the same fetched metadata, the LLM service answering valid JSON, make
\* one LLM request in total, and the second returns the result of the first
\* from the cache.
C3_ClassifyIdempotent ==
    (/\ HasPrev /\ ClassifyOver(P) /\ ClassifyOver(R)
     /\ R.patent_data = P.patent_data
     /\ RepliesJSON(Val(P.llm)) /\ RepliesJSON(Val(R.llm)))
    => (/\ P.llmCalls + R.llmCalls = 1
        /\ R.path = "cache"
        /\ ~IsNone(R.gpt_result) /\ R.gpt_result = P.gpt_result)

\* C4: fetch idempotence. When query_patent asked the search service and got
\* a record, the next query_patent on the same identifier asks nothing (one
\* request in total) and returns the same metadata.
C4_FetchIdempotent ==
    (HasPrev /\ P.found /\ P.apiCalls = 1 /\ FetchOver(R))
    => (/\ P.apiCalls + R.apiCalls = 1
        /\ R.found
        /\ R.patent_data = P.patent_data)

C4_Witness ==
    /\ HasPrev /\ P.found /\ P.apiCalls = 1 /\ FetchOver(R)
    /\ R.found /\ R.patent_data = P.patent_data

\* C5: a successful classification is persisted. When categorize_with_llm
\* returns the parsed LLM result, the row of its identifier holds that result
\* in gpt_json, so that the lookup of line 94 gives it back.
C5_SuccessPersisted ==
    (ClassifyOver(R) /\ R.path = "llm")
    => (/\ BagCardinality(RowsOf(table, R.key)) = 1
        /\ TheRow(RowsOf(table, R.key)).gpt_json = Some(json_dumps(Val(R.gpt_result))))

\* C6: failure is never cached. When the LLM call raises (no reply, a status
\* other than 200) or its text is not JSON, categorize_with_llm returns
\* {"error": reason} and nothing else, and leaves the table as it was at the
\* call, gpt_json of its identifier unset.
C6_FailureNotCached ==
    (ClassifyOver(R) /\ R.llmCalls = 1 /\ ~RepliesJSON(Val(R.llm)))
    => (/\ R.path = "except"
        /\ IsObj(Val(R.gpt_result)) /\ Len(Val(R.gpt_result)[2]) = 1
        /\ Val(R.gpt_result)[2][1][1] = <<"error">>
        /\ Val(R.gpt_result)[2][1][2][1] = "str"
        /\ table = R.before
        /\ \A r \in DOMAIN RowsOf(table, R.key) : IsNone(r.gpt_json))

C6_Witness ==
    /\ ClassifyOver(R) /\ R.path = "except"
    /\ R.llm = Some(Response("200", Some(<<Word("Sure!")>> \o json_dumps(GoodResult))))
    /\ table = R.before

\* C7: retry after failure. When a submission ended in a classification
\* failure, the next submission of the same identifier makes no request to
\* the search service and one to the LLM service, and ends with the
\* classification when that request returns valid JSON.
C7_RetryAfterFailure ==
    (HasPrev /\ P.path = "except" /\ Ended(R))
    => (/\ R.apiCalls = 0 /\ R.found
        /\ R.llmCalls = 1
        /\ RepliesJSON(Val(R.llm)) =>
              /\ R.path = "llm"
              /\ R.gpt_result = Some(ReplyValue(Val(R.llm)))
              /\ IsNone(R.error)
              /\ OnPage(R, Widget("write", MetadataView(PatentOf(Val(R.patent_data))[2]))))

C7_Witness ==
    /\ HasPrev /\ P.path = "except" /\ Ended(R)
    /\ R.path = "llm" /\ R.gpt_result = Some(GoodResult)

\* C8: categorize_with_llm is total. Every call ends by returning a result
\* or {"error": reason}; no exception leaves it.
C8_ClassifyTotal ==
    ClassifyOver(R) => (IsNone(R.error) /\ ~IsNone(R.gpt_result))

\* C9: not-found propagation. When the search service answers with another
\* status than 200, or without a non-empty patents array, query_patent
\* returns None after that one request and leaves the table as it was, no row
\* for the identifier; the run ends with the banner; and the next
\* query_patent on the identifier asks the service again.
C9_NotFound ==
    /\ (FetchOver(R) /\ ~IsNone(R.api) /\ RepliesNoRecord(Val(R.api)))
       => (/\ Ended(R) /\ ~R.found /\ IsNone(R.patent_data) /\ IsNone(R.error)
           /\ R.apiCalls = 1
           /\ table = R.before
           /\ RowsOf(table, R.patent_number) = EmptyBag
           /\ R.page = NotFoundPage)
    /\ (/\ HasPrev /\ ~IsNone(P.api) /\ RepliesNoRecord(Val(P.api))
        /\ FetchOver(R))
       => R.apiCalls = 1

C9_Witness ==
    /\ HasPrev /\ ~IsNone(P.api) /\ RepliesNoRecord(Val(P.api))
    /\ FetchOver(R) /\ ~IsNone(R.api)
    /\ Val(R.api) = Response("200", Some(Obj(<< <<<<"patents">>, Arr(<<>>)>> >>)))
    /\ R.page = NotFoundPage

\* C10: upsert correctness. From any state of the table, the metadata write
\* followed by the classification write on the same identifier leaves exactly
\* one row of that identifier, holding the two values written.
C10_Upsert ==
    (Len(writes) = 2 /\ writes[1][2] = writes[2][2])
    => RowsOf(table, Some(writes[1][2]))
         = SetToBag({Row(writes[1][2], Some(json_dumps(writes[1][3])),
                         Some(json_dumps(writes[2][3])))})

\* the pair of writes on a row that existed, classified, before them
C10_Witness ==
    /\ Len(writes) = 2 /\ writes[1][2] = writes[2][2]
    /\ BagCardinality(Val(table)) = NumIds
    /\ writes[2][3] = GoodResult
    /\ \A r \in DOMAIN Val(table) : ~IsNone(r.gpt_json)

\* C11: frame of the metadata write. REPLACE INTO for an identifier that has
\* a row replaces data_json and leaves gpt_json of that row as it was; for an
\* identifier without a row it creates the row with gpt_json NULL; the rows of
\* the other identifiers stay as they were.
C11_PutMetadataFrame ==
    [][\A k \in Ids :
         (Len(writes') = 1 /\ writes'[1][1] = "put_metadata" /\ writes'[1][2] = k)
         => (/\ Filter(Val(table'), Some(k), FALSE) = Filter(Val(table), Some(k), FALSE)
             /\ RowsOf(table', Some(k))
                  = SetToBag({Row(k, Some(json_dumps(writes'[1][3])),
                                  IF RowsOf(table, Some(k)) = EmptyBag THEN None
                                  ELSE TheRow(RowsOf(table, Some(k))).gpt_json)}))
      ]_vars

\* C12: the classification is frozen and fetching leaves it alone. Whatever
\* the sessions do, a step taken while a row holds a classification leaves
\* that row holding the same classification; and a step of query_patent makes
\* no request to the LLM service.
C12_ClassificationFrozen ==
    [][/\ \A k \in Ids : \A x \in DOMAIN RowsOf(table, Some(k)) :
             ~IsNone(x.gpt_json)
             => /\ RowsOf(table', Some(k)) # EmptyBag
                /\ \A y \in DOMAIN RowsOf(table', Some(k)) : y.gpt_json = x.gpt_json
       /\ \A p \in Procs :
             run[p].pc \in {"q_select", "q_http", "q_replace"}
             => run'[p].llmCalls = run[p].llmCalls
      ]_vars

\* C13: failure presentation. A submission whose metadata was found shows the
\* "LLM Error" banner, with the reason, exactly when categorize_with_llm
\* returned the dict of its except clause, and shows the categorization
\* exactly when it returned a result (parsed from the LLM's answer or read
\* from the cache); a result it wrote to the cache is shown as categorization.
C13_FailurePresentation ==
    (Ended(R) /\ R.found)
    => (/\ (\E i \in 1..Len(R.page) : R.page[i][1] = "error") <=> R.path = "except"
        /\ OnPage(R, Widget("subheader", Str(<<"Categorization">>)))
              <=> R.path \in {"llm", "cache"}
        /\ R.path = "except"
              => OnPage(R, Widget("error", Str(<<"LLM Error: ">>
                                               \o Val(R.gpt_result)[2][1][2][2])))
        /\ R.path = "llm" => OnPage(R, Widget("json", Val(R.gpt_result))))

\* C14: per-submission sequencing. A run makes at most one request to the
\* search service and at most one to the LLM service; the LLM request comes
\* only after query_patent returned metadata; and when query_patent returned
\* None the run is over with the not-found banner, categorize_with_llm not
\* called, no LLM request made and the table as the run found it.
C14_Sequencing ==
    /\ R.apiCalls <= 1 /\ R.llmCalls <= 1
    /\ R.llmCalls = 1
          => (FetchOver(R) /\ R.found /\ R.classify /\ ~IsNone(R.patent_data))
    /\ (FetchOver(R) /\ ~R.found /\ IsNone(R.error))
          => (/\ Ended(R) /\ R.page = NotFoundPage
              /\ ~R.classify /\ R.llmCalls = 0
              /\ table = R.before)

C14_Witness ==
    /\ HasPrev /\ Ended(P) /\ ~P.found /\ IsNone(P.error)
    /\ P.apiCalls = 1 /\ P.page = NotFoundPage
    /\ Ended(R) /\ R.found /\ R.apiCalls = 1 /\ R.llmCalls = 1

\* C15: no duplicate rows under races. With two sessions interleaved at the
\* statements, the table never holds two rows of one identifier; the REPLACE
\* INTO of a session leaves the identifier's row with the metadata that
\* session got, and no other step changes the metadata of a row: the row
\* holds the metadata of the last metadata write.
C15_NoDuplicateRows ==
    [][/\ \A k \in Ids : BagCardinality(RowsOf(table', Some(k))) <= 1
       /\ \A p \in PairProcs :
             (run[p].pc = "q_replace" /\ run'[p] # run[p])
             => \E x \in DOMAIN RowsOf(table', run[p].patent_number) :
                   x.data_json = Some(json_dumps(Val(run[p].patent_data)))
       /\ (\A p \in PairProcs : ~(run[p].pc = "q_replace" /\ run'[p] # run[p]))
             => \A k \in Ids :
                   {x.data_json : x \in DOMAIN RowsOf(table', Some(k))}
                      = {x.data_json : x \in DOMAIN RowsOf(table, Some(k))}
      ]_vars

\* both sessions missed the cache on one identifier, got different metadata
\* and wrote
C15_Witness ==
    /\ run[1].patent_number = run[2].patent_number
    /\ run[1].apiCalls = 1 /\ run[2].apiCalls = 1
    /\ run[1].found /\ run[2].found
    /\ run[1].patent_data # run[2].patent_data
    /\ BagCardinality(RowsOf(table, run[1].patent_number)) = 1

\* C16: rows are permanent and their metadata immutable. In one session no
\* step removes the row of an identifier or changes the data_json of a row
\* there is, and a run of the script that starts on an existing table (its
\* init_cache included) leaves the table as it was.
C16_RowsPermanent ==
    [][/\ \A k \in Ids : \A x \in DOMAIN RowsOf(table, Some(k)) :
             /\ RowsOf(table', Some(k)) # EmptyBag
             /\ \A y \in DOMAIN RowsOf(table', Some(k)) : y.data_json = x.data_json
       /\ (R.pc = "idle" /\ ~IsNone(table)) => table' = table
      ]_vars

\* a second submission of an identifier started on the row the first one
\* stored, and the row holds what the first one stored
C16_Witness ==
    /\ HasPrev /\ P.apiCalls = 1 /\ P.found
    /\ Submitted(R) /\ R.apiCalls = 0 /\ R.found
    /\ \E x \in DOMAIN RowsOf(table, R.patent_number) :
          x.data_json = Some(json_dumps(Val(P.patent_data)))

\* C17: fail-fast configuration. While TOGETHER_API_KEY is in neither the
\* environment nor the secrets, every run of the script ends at line 10 with
\* KeyError: the table is never created, the text box is never reached, no
\* identifier is taken and no request is made to either service.
C17_FailFast ==
    ~credential
    => (/\ table = None
        /\ \A p \in Procs :
              /\ run[p] \in {NoRun, Crashed(NoRun, KeyError)}
              /\ ~run[p].rendered /\ ~Submitted(run[p])
              /\ run[p].apiCalls = 0 /\ run[p].llmCalls = 0)

C17_Witness ==
    /\ ~credential
    /\ R.error = Some(KeyError) /\ R.page = <<Exception(KeyError)>>
    /\ table = None

\* C18: every row holds metadata. In every state of the table each row has
\* data_json set, whatever its gpt_json; and no run ends in query_patent with
\* the TypeError of json.loads(None).
C18_MetadataPopulated ==
    /\ ~IsNone(table) =>
          \A x \in DOMAIN Val(table) : x.patent_number \in Ids /\ ~IsNone(x.data_json)
    /\ \A p \in Procs : run[p].error = Some(TypeError) => run[p].classify

\* the second session hit the row the first one stored
C18_Witness ==
    /\ run[1].apiCalls = 1 /\ run[1].found
    /\ run[2].patent_number = run[1].patent_number
    /\ run[2].apiCalls = 0 /\ run[2].found
    /\ \E x \in DOMAIN RowsOf(table, run[2].patent_number) :
          x.data_json = Some(json_dumps(Val(run[2].patent_data)))

\* C19: key consistency. In a run that calls categorize_with_llm, the key of
\* its SELECT and UPDATE (patent_number of the first record of the metadata)
\* is the identifier under which query_patent stored the row (the stripped
\* input); and when the UPDATE was executed, the table holds one row of that
\* key and it carries the result.
C19_KeyConsistency ==
    /\ R.classify => R.key = R.patent_number
    /\ (Ended(R) /\ R.path = "llm")
          => (/\ BagCardinality(RowsOf(table, R.key)) = 1
              /\ \A x \in DOMAIN RowsOf(table, R.key) :
                    x.gpt_json = Some(json_dumps(Val(R.gpt_result))))
====
